---------------------------- MODULE Spec2Model ----------------------------
(***************************************************************************)
(* City-Guessr ("Skyline"): the App component's game state machine, the    *)
(* question generator (generateQuestionData) and the persistence of the    *)
(* per-city statistics in localStorage under the key 'skyline_stats'.      *)
(*                                                                         *)
(* Strings are sequences of one-character strings, so that trim() and      *)
(* toLowerCase() are computed, not assumed.  A JavaScript value that may   *)
(* be null is a sequence of length 0 (null) or 1 (the value).  A           *)
(* JavaScript object used as a mapping (stats) is the sequence of its      *)
(* properties in insertion order.                                          *)
(***************************************************************************)
EXTENDS Integers, Sequences, FiniteSets, TLC

VARIABLES
    gameState,        \* useState<GameState>: the screen shown
    useRealImage,     \* useState<boolean>: photo search or AI image
    currentQuestion,  \* useState<Question | null>
    score,            \* useState(0)
    streak,           \* useState(0)
    history,          \* useState<string[]>: cities generated in this game
    isCorrect,        \* useState<boolean>: verdict of the last guess
    errorMsg,         \* useState<string | null>
    stats,            \* useState<Record<string, CityStats>>
    imageError,       \* useState<boolean>
    blob,             \* localStorage item 'skyline_stats'
    phase,            \* "mounted": rendered, effects not yet run;
                      \* "loaded": mount effects ran, setStats(parsed) pending;
                      \* "ready": nothing pending
    pendingStats,     \* the state update queued by the load effect
    reqPhase,         \* generateQuestionData in flight: "idle", "text", "image"
    reqExclude,       \* its excludeCities argument
    reqReal,          \* its useRealImage argument
    reqData,          \* cityData, once the text reply has been parsed
    calls,            \* the network calls this invocation has issued, in order
    guess,            \* history variable: the argument of the handleGuess whose
                      \* result screen is shown
    run,              \* history variable: correct guesses in a row in this game
    issued,           \* history variable: the state when the request was issued
    written,          \* history variable: the mapping the save effect last wrote
    reloadM,          \* history variable: the written mapping a reload started from
    generated,        \* history variable: the cities of the questions generated
                      \* since the last startGame, in order
    unanswered        \* history variable: a question was generated and no guess
                      \* has been handled since

vars == <<gameState, useRealImage, currentQuestion, score, streak, history,
          isCorrect, errorMsg, stats, imageError, blob, phase, pendingStats,
          reqPhase, reqExclude, reqReal, reqData, calls,
          guess, run, issued, written, reloadM, generated, unanswered>>

appState == <<gameState, useRealImage, currentQuestion, score, streak, history,
              isCorrect, errorMsg, stats, imageError>>
reqState == <<reqPhase, reqExclude, reqReal, reqData, calls>>
mountState == <<phase, pendingStats>>

---------------------------------------------------------------------------
(* Bounds of the model *)

\* the stats counters of all cities together count at most this many guesses
MaxVisits == 2

---------------------------------------------------------------------------
(* Values *)

None == <<>>
Some(x) == <<x>>

BaseScore == 100
StreakBonus == 10

SignalLost == "Signal lost. We couldn't find a clear view of this city."

Paris == <<"P", "a", "r", "i", "s">>
Rome == <<"R", "o", "m", "e">>
Berlin == <<"B", "e", "r", "l", "i", "n">>
Madrid == <<"M", "a", "d", "r", "i", "d">>
\* the same letters as Paris in another case, with surrounding whitespace
ParisPadded == <<" ", "p", "A", "R", "I", "S", " ">>
\* whitespace inside the name
ParisSplit == <<"P", "a", " ", "r", "i", "s">>

\* What JSON.parse(textResponse.text) can yield: the schema fixes the fields
\* and their types, not the number of distractors nor that they differ from
\* cityName, and the model may give other coordinates for the same city.
CityDataSet ==
    { [cityName |-> Paris, country |-> "France",
       distractors |-> <<Rome, Berlin, Madrid>>,
       funFact |-> "fact", lat |-> 48, lng |-> 2],
      [cityName |-> Paris, country |-> "France",
       distractors |-> <<ParisPadded, ParisSplit>>,
       funFact |-> "fact", lat |-> 49, lng |-> 2],
      [cityName |-> Rome, country |-> "Italy",
       distractors |-> <<Rome, Paris>>,
       funFact |-> "fact", lat |-> 41, lng |-> 12] }

\* textResponse.text: falsy, not JSON, or the JSON of a CityData
TextReplies ==
    {[kind |-> "empty"], [kind |-> "invalid"]}
        \cup {[kind |-> "json", data |-> d] : d \in CityDataSet}

\* the photo search reply: HTTP failure, or urls.regular and the credit
PhotoReplies ==
    { [ok |-> FALSE],
      [ok |-> TRUE, url |-> "photo.jpg",
       credit |-> [name |-> "Ann", url |-> "unsplash.com/@ann"]] }

\* the AI image reply: with or without a part holding inlineData
ImageReplies ==
    { [hasImage |-> FALSE], [hasImage |-> TRUE, data |-> "data:image/png;base64,AAAA"] }

---------------------------------------------------------------------------
(* String.prototype.trim and toLowerCase *)

IsSpace(c) == c = " "

ToLowerChar(c) ==
    CASE c = "A" -> "a" [] c = "B" -> "b" [] c = "I" -> "i" [] c = "M" -> "m"
      [] c = "P" -> "p" [] c = "R" -> "r" [] c = "S" -> "s"
      [] OTHER -> c

ToLowerCase(s) == [i \in 1..Len(s) |-> ToLowerChar(s[i])]

RECURSIVE TrimStart(_)
TrimStart(s) ==
    IF s # <<>> /\ IsSpace(Head(s)) THEN TrimStart(Tail(s)) ELSE s

RECURSIVE TrimEnd(_)
TrimEnd(s) ==
    IF s # <<>> /\ IsSpace(s[Len(s)]) THEN TrimEnd(SubSeq(s, 1, Len(s) - 1)) ELSE s

Trim(s) == TrimEnd(TrimStart(s))

\* a normalisation that forgets trim()
NormalizeNoTrim(s) == ToLowerCase(s)

\* guess.trim().toLowerCase()
Normalize(s) == ToLowerCase(Trim(s))

\* const correct = normalizedGuess === normalizedAnswer
Judge(g, q) == Normalize(g) = Normalize(q.cityName)

---------------------------------------------------------------------------
(* JSON.stringify and JSON.parse of the stats mapping.  In memory the       *)
(* mapping is the sequence of its properties [key, value]; the text is the  *)
(* sequence of its members <<key, <<city, country, lat, lng, correct,       *)
(* wrong>>>>, in the same order.                                            *)

NoItem == [kind |-> "none"]
Corrupt == [kind |-> "corrupt"]

\* a serialisation that loses the wrong counter
JsonMemberDropsWrong(p) ==
    <<p.key, <<p.value.city, p.value.country, p.value.lat, p.value.lng,
               p.value.correct, 0>>>>

\* one member of the JSON text of the mapping
JsonMember(p) ==
    <<p.key, <<p.value.city, p.value.country, p.value.lat, p.value.lng,
               p.value.correct, p.value.wrong>>>>

\* JSON.stringify(stats)
JsonStringify(m) == [kind |-> "json", text |-> [i \in 1..Len(m) |-> JsonMember(m[i])]]

JsonProperty(t) ==
    [key |-> t[1],
     value |-> [city |-> t[2][1], country |-> t[2][2], lat |-> t[2][3],
                lng |-> t[2][4], correct |-> t[2][5], wrong |-> t[2][6]]]

\* JSON.parse(savedStats), for a text that parses
JsonParse(b) == [i \in 1..Len(b.text) |-> JsonProperty(b.text[i])]

---------------------------------------------------------------------------
(* The stats mapping: prev[key], and { ...prev, [key]: value } *)

Keys(m) == {m[i].key : i \in 1..Len(m)}

HasKey(m, k) == k \in Keys(m)

Get(m, k) == (CHOOSE i \in 1..Len(m) : m[i].key = k)

Lookup(m, k) == m[Get(m, k)].value

\* { ...prev, [key]: value }: an own property keeps its place, a new one is
\* added last
SpreadWith(m, k, v) ==
    IF HasKey(m, k)
    THEN [i \in 1..Len(m) |-> IF m[i].key = k THEN [key |-> k, value |-> v] ELSE m[i]]
    ELSE Append(m, [key |-> k, value |-> v])

\* an updater that counts every guess on both counters
UpdateStatsBothCounters(prev, q, correct) ==
    LET key == q.cityName
        existing == IF HasKey(prev, key)
                    THEN Lookup(prev, key)
                    ELSE [city |-> q.cityName, country |-> q.country,
                          lat |-> q.lat, lng |-> q.lng,
                          correct |-> 0, wrong |-> 0]
    IN  SpreadWith(prev, key,
                   [existing EXCEPT
                       !.correct = existing.correct + 1,
                       !.wrong = existing.wrong + 1,
                       !.lat = q.lat,
                       !.lng = q.lng])

\* the updater handed to setStats in handleGuess
UpdateStats(prev, q, correct) ==
    LET key == q.cityName
        existing == IF HasKey(prev, key)
                    THEN Lookup(prev, key)
                    ELSE [city |-> q.cityName, country |-> q.country,
                          lat |-> q.lat, lng |-> q.lng,
                          correct |-> 0, wrong |-> 0]
    IN  SpreadWith(prev, key,
                   [existing EXCEPT
                       !.correct = existing.correct + (IF correct THEN 1 ELSE 0),
                       !.wrong = existing.wrong + (IF ~correct THEN 1 ELSE 0),
                       !.lat = q.lat,
                       !.lng = q.lng])

RECURSIVE Visits(_)
Visits(m) ==
    IF m = <<>> THEN 0
    ELSE Head(m).value.correct + Head(m).value.wrong + Visits(Tail(m))

---------------------------------------------------------------------------
(* The Fisher-Yates shuffle of generateQuestionData.  js[i] is the value    *)
(* Math.floor(Math.random() * (i + 1)) takes at position i; positions are   *)
(* counted from 1 here, so js[i] ranges over 1..i.                          *)

RandomChoices(n) == {js \in [2..n -> 1..n] : \A i \in 2..n : js[i] <= i}

\* a swap that loses options[i]
SwapOverwrites(o, i, j) == [o EXCEPT ![i] = o[j]]

\* [options[i], options[j]] = [options[j], options[i]]
Swap(o, i, j) == [o EXCEPT ![i] = o[j], ![j] = o[i]]

RECURSIVE ShuffleFrom(_, _, _)
ShuffleFrom(o, i, js) ==
    IF i > 1 THEN ShuffleFrom(Swap(o, i, js[i]), i - 1, js) ELSE o

\* const options = [...cityData.distractors, cityData.cityName], shuffled
Options(d, js) == ShuffleFrom(Append(d.distractors, d.cityName),
                              Len(d.distractors) + 1, js)

\* return { ...cityData, imageUrl, imageCredit, options }
MakeQuestion(d, imageUrl, imageCredit, js) ==
    [cityName |-> d.cityName, country |-> d.country,
     distractors |-> d.distractors, funFact |-> d.funFact,
     lat |-> d.lat, lng |-> d.lng,
     imageUrl |-> imageUrl, imageCredit |-> imageCredit,
     options |-> Options(d, js)]

---------------------------------------------------------------------------
(* handleGuess: the new score and streak *)

\* a bonus computed from the streak after its increment
ScoreWithNewStreak(s, k) == s + BaseScore + ((k + 1) * StreakBonus)

\* setScore(s => s + 100 + (streak * 10)), streak being the rendered value
ScoreAfterCorrect(s, k) == s + BaseScore + (k * StreakBonus)

\* a miss that leaves the streak
StreakKeptOnMiss(s, correct) == IF correct THEN s + 1 ELSE s

\* setStreak(s => s + 1) on a correct guess, setStreak(0) otherwise
StreakAfterGuess(s, correct) == IF correct THEN s + 1 ELSE 0

---------------------------------------------------------------------------
(* The initial state: App has rendered for the first time, its effects     *)
(* have not run.  The stored item is what an earlier visit left: nothing,  *)
(* or a text that does not parse.                                          *)

Fresh ==
    /\ gameState = "MENU"
    /\ useRealImage = FALSE
    /\ currentQuestion = None
    /\ score = 0
    /\ streak = 0
    /\ history = <<>>
    /\ isCorrect = FALSE
    /\ errorMsg = None
    /\ stats = <<>>
    /\ imageError = FALSE
    /\ phase = "mounted"
    /\ pendingStats = None
    /\ reqPhase = "idle"
    /\ reqExclude = <<>>
    /\ reqReal = FALSE
    /\ reqData = None
    /\ calls = <<>>
    /\ guess = None
    /\ run = 0
    /\ issued = None
    /\ generated = <<>>
    /\ unanswered = FALSE

Init ==
    /\ Fresh
    /\ blob \in {NoItem, Corrupt}
    /\ written = None
    /\ reloadM = None

---------------------------------------------------------------------------
(* Page load and the two mount effects *)

\* The page is reloaded: every in-memory value is lost, a request in flight
\* dies with the page, the stored item stays.
Reload ==
    /\ gameState' = "MENU"
    /\ useRealImage' = FALSE
    /\ currentQuestion' = None
    /\ score' = 0
    /\ streak' = 0
    /\ history' = <<>>
    /\ isCorrect' = FALSE
    /\ errorMsg' = None
    /\ stats' = <<>>
    /\ imageError' = FALSE
    /\ phase' = "mounted"
    /\ pendingStats' = None
    /\ reqPhase' = "idle"
    /\ reqExclude' = <<>>
    /\ reqReal' = FALSE
    /\ reqData' = None
    /\ calls' = <<>>
    /\ guess' = None
    /\ run' = 0
    /\ issued' = None
    /\ generated' = <<>>
    /\ unanswered' = FALSE
    /\ reloadM' = IF blob.kind = "json" THEN written ELSE None
    /\ UNCHANGED <<blob, written>>

\* useEffect(() => { const savedStats = localStorage.getItem(...); ... }, [])
\* the update it queues with setStats, if any
LoadStatsEffect(b) ==
    IF b.kind = "none" THEN None
    ELSE IF b.kind = "json" THEN Some(JsonParse(b))
    ELSE None

\* useEffect(() => { localStorage.setItem(..., JSON.stringify(stats)) }, [stats])
SaveStatsEffect(m) == JsonStringify(m)

\* Both effects of the first render run in one flush, in the order they are
\* declared; the save effect sees the stats of that render, the empty mapping.
MountEffects ==
    /\ phase = "mounted"
    /\ pendingStats' = LoadStatsEffect(blob)
    /\ blob' = SaveStatsEffect(stats)
    /\ written' = Some(stats)
    /\ phase' = IF pendingStats' # None THEN "loaded" ELSE "ready"
    /\ UNCHANGED <<appState, reqState, guess, run, issued, reloadM, generated,
                   unanswered>>

\* The re-render that setStats(JSON.parse(savedStats)) asked for, and the save
\* effect that follows it because stats changed.
Rerender ==
    /\ phase = "loaded"
    /\ stats' = pendingStats[1]
    /\ pendingStats' = None
    /\ blob' = SaveStatsEffect(stats')
    /\ written' = Some(stats')
    /\ phase' = "ready"
    /\ UNCHANGED <<gameState, useRealImage, currentQuestion, score, streak,
                   history, isCorrect, errorMsg, imageError, reqState,
                   guess, run, issued, reloadM, generated, unanswered>>

---------------------------------------------------------------------------
(* The game *)

\* a loadNewQuestion that forgets setImageError(false)
LoadNewQuestionKeepsImageError(currentHistory) ==
    /\ gameState' = "LOADING"
    /\ errorMsg' = None
    /\ imageError' = imageError
    /\ reqPhase' = "text"
    /\ reqExclude' = currentHistory
    /\ reqReal' = useRealImage
    /\ reqData' = None
    /\ calls' = <<"text">>
    /\ issued' = Some([score |-> score', streak |-> streak', history |-> history',
                       stats |-> stats', currentQuestion |-> currentQuestion'])

\* loadNewQuestion(currentHistory) up to its await: the caller has set the
\* values it changes before.
LoadNewQuestion(currentHistory) ==
    /\ gameState' = "LOADING"
    /\ errorMsg' = None
    /\ imageError' = FALSE
    /\ reqPhase' = "text"
    /\ reqExclude' = currentHistory
    /\ reqReal' = useRealImage
    /\ reqData' = None
    /\ calls' = <<"text">>
    /\ issued' = Some([score |-> score', streak |-> streak', history |-> history',
                       stats |-> stats', currentQuestion |-> currentQuestion'])

\* startGame: "Start Journey" on the menu, "Reconnect" on the error screen
StartGame ==
    /\ phase = "ready"
    /\ gameState \in {"MENU", "ERROR"}
    /\ score' = 0
    /\ streak' = 0
    /\ history' = <<>>
    /\ run' = 0
    /\ generated' = <<>>
    /\ UNCHANGED <<useRealImage, currentQuestion, isCorrect, stats, blob,
                   mountState, guess, written, reloadM, unanswered>>
    /\ LoadNewQuestion(<<>>)

\* a next round that passes no city to exclude
HandleNextRoundNoExclusions ==
    /\ phase = "ready"
    /\ gameState = "RESULT"
    /\ UNCHANGED <<useRealImage, currentQuestion, score, streak, history,
                   isCorrect, stats, blob, mountState, run, written, reloadM,
                   generated, unanswered>>
    /\ guess' = None
    /\ LoadNewQuestion(<<>>)

\* handleNextRound: "Next City" on the result screen
HandleNextRound ==
    /\ phase = "ready"
    /\ gameState = "RESULT"
    /\ UNCHANGED <<useRealImage, currentQuestion, score, streak, history,
                   isCorrect, stats, blob, mountState, run, written, reloadM,
                   generated, unanswered>>
    /\ guess' = None
    /\ LoadNewQuestion(history)

\* a catch that also drops the question shown before
LoadNewQuestionCatchClears ==
    /\ errorMsg' = Some(SignalLost)
    /\ gameState' = "ERROR"
    /\ currentQuestion' = None
    /\ UNCHANGED <<useRealImage, score, streak, history,
                   isCorrect, stats, imageError>>

\* the catch of loadNewQuestion
LoadNewQuestionCatch ==
    /\ errorMsg' = Some(SignalLost)
    /\ gameState' = "ERROR"
    /\ UNCHANGED <<useRealImage, currentQuestion, score, streak, history,
                   isCorrect, stats, imageError>>

\* generateQuestionData rejects: the request is over, loadNewQuestion catches
Rejected ==
    /\ LoadNewQuestionCatch
    /\ reqPhase' = "idle"
    /\ UNCHANGED <<reqExclude, reqReal, reqData, calls, blob, mountState,
                   guess, run, issued, written, reloadM, generated, unanswered>>

\* generateQuestionData resolves with q: the rest of loadNewQuestion's try
Resolved(q) ==
    /\ currentQuestion' = Some(q)
    /\ gameState' = "PLAYING"
    /\ history' = Append(history, q.cityName)
    /\ reqPhase' = "idle"
    /\ issued' = None
    /\ generated' = Append(generated, q.cityName)
    /\ unanswered' = TRUE
    /\ UNCHANGED <<useRealImage, score, streak, isCorrect, errorMsg, stats,
                   imageError, reqExclude, reqReal, reqData, calls, blob,
                   mountState, guess, run, written, reloadM>>

\* ai.models.generateContent for the city data rejects
TextCallThrows ==
    /\ reqPhase = "text"
    /\ Rejected

\* an image step that calls the source useRealImage does not select
TextReplyWrongSource(r) ==
    /\ reqPhase = "text"
    /\ IF r.kind = "json"
       THEN /\ reqData' = Some(r.data)
            /\ reqPhase' = "image"
            /\ calls' = Append(calls, IF reqReal THEN "image" ELSE "photo")
            /\ UNCHANGED <<appState, reqExclude, reqReal, blob, mountState,
                           guess, run, issued, written, reloadM, generated, unanswered>>
       ELSE Rejected

\* The text call returns: no text or text that is not JSON throws, else the
\* image step starts with the one call useRealImage selects.
TextReply(r) ==
    /\ reqPhase = "text"
    /\ IF r.kind = "json"
       THEN /\ reqData' = Some(r.data)
            /\ reqPhase' = "image"
            /\ calls' = Append(calls, IF reqReal THEN "photo" ELSE "image")
            /\ UNCHANGED <<appState, reqExclude, reqReal, blob, mountState,
                           guess, run, issued, written, reloadM, generated, unanswered>>
       ELSE Rejected

\* fetch or the AI image call rejects
ImageCallThrows ==
    /\ reqPhase = "image"
    /\ Rejected

\* getUnsplashImage returns or throws on !response.ok
PhotoReply(r) ==
    /\ reqPhase = "image"
    /\ reqReal
    /\ IF r.ok
       THEN \E js \in RandomChoices(Len(reqData[1].distractors) + 1) :
                Resolved(MakeQuestion(reqData[1], r.url, Some(r.credit), js))
       ELSE Rejected

\* the AI image call returns; without an inlineData part imageUrl stays ""
ImageReply(r) ==
    /\ reqPhase = "image"
    /\ ~reqReal
    /\ IF r.hasImage
       THEN \E js \in RandomChoices(Len(reqData[1].distractors) + 1) :
                Resolved(MakeQuestion(reqData[1], r.data, None, js))
       ELSE Rejected

\* a handleGuess that leaves the option buttons on the screen
HandleGuessStaysPlaying(g) ==
    /\ phase = "ready"
    /\ gameState = "PLAYING"
    /\ currentQuestion # None
    /\ Visits(stats) < MaxVisits
    /\ LET q == currentQuestion[1]
           correct == Judge(g, q)
       IN  /\ isCorrect' = correct
           /\ score' = IF correct THEN ScoreAfterCorrect(score, streak) ELSE score
           /\ streak' = StreakAfterGuess(streak, correct)
           /\ stats' = UpdateStats(stats, q, correct)
           /\ run' = IF correct THEN run + 1 ELSE 0
    /\ gameState' = "PLAYING"
    /\ blob' = SaveStatsEffect(stats')
    /\ written' = Some(stats')
    /\ guess' = Some(g)
    /\ reloadM' = None
    /\ unanswered' = FALSE
    /\ UNCHANGED <<useRealImage, currentQuestion, history, errorMsg, imageError,
                   mountState, reqState, issued, generated>>

\* handleGuess(option), and the save effect of the render it causes
HandleGuess(g) ==
    /\ phase = "ready"
    /\ gameState = "PLAYING"
    /\ currentQuestion # None
    /\ Visits(stats) < MaxVisits
    /\ LET q == currentQuestion[1]
           correct == Judge(g, q)
       IN  /\ isCorrect' = correct
           /\ score' = IF correct THEN ScoreAfterCorrect(score, streak) ELSE score
           /\ streak' = StreakAfterGuess(streak, correct)
           /\ stats' = UpdateStats(stats, q, correct)
           /\ run' = IF correct THEN run + 1 ELSE 0
    /\ gameState' = "RESULT"
    /\ blob' = SaveStatsEffect(stats')
    /\ written' = Some(stats')
    /\ guess' = Some(g)
    /\ reloadM' = None
    /\ unanswered' = FALSE
    /\ UNCHANGED <<useRealImage, currentQuestion, history, errorMsg, imageError,
                   mountState, reqState, issued, generated>>

\* the option buttons of renderPlaying: onClick={() => handleGuess(option)}
ShownOptions ==
    IF currentQuestion # None
    THEN {currentQuestion[1].options[i] : i \in 1..Len(currentQuestion[1].options)}
    ELSE {}

ClickOption == \E g \in ShownOptions : HandleGuess(g)

\* a menu button that is also offered on the loading screen
HandleReturnToMenuWhileLoading ==
    /\ phase = "ready"
    /\ gameState \in {"LOADING", "PLAYING", "RESULT", "ERROR", "MAP"}
    /\ gameState' = "MENU"
    /\ guess' = None
    /\ UNCHANGED <<useRealImage, currentQuestion, score, streak, history,
                   isCorrect, errorMsg, stats, imageError, blob, mountState,
                   reqState, run, issued, written, reloadM, generated, unanswered>>

\* handleReturnToMenu: offered on the playing, result, error and map screens
HandleReturnToMenu ==
    /\ phase = "ready"
    /\ gameState \in {"PLAYING", "RESULT", "ERROR", "MAP"}
    /\ gameState' = "MENU"
    /\ guess' = None
    /\ UNCHANGED <<useRealImage, currentQuestion, score, streak, history,
                   isCorrect, errorMsg, stats, imageError, blob, mountState,
                   reqState, run, issued, written, reloadM, generated, unanswered>>

\* "My Map" on the menu
OpenMap ==
    /\ phase = "ready"
    /\ gameState = "MENU"
    /\ gameState' = "MAP"
    /\ UNCHANGED <<useRealImage, currentQuestion, score, streak, history,
                   isCorrect, errorMsg, stats, imageError, blob, mountState,
                   reqState, guess, run, issued, written, reloadM, generated, unanswered>>

\* the image source toggle on the menu
SetUseRealImage(b) ==
    /\ phase = "ready"
    /\ gameState = "MENU"
    /\ useRealImage' = b
    /\ UNCHANGED <<gameState, currentQuestion, score, streak, history,
                   isCorrect, errorMsg, stats, imageError, blob, mountState,
                   reqState, guess, run, issued, written, reloadM, generated, unanswered>>

\* onError of the <img>, which is rendered while imageError is false
ImageLoadError ==
    /\ phase = "ready"
    /\ gameState = "PLAYING"
    /\ currentQuestion # None
    /\ ~imageError
    /\ imageError' = TRUE
    /\ UNCHANGED <<gameState, useRealImage, currentQuestion, score, streak,
                   history, isCorrect, errorMsg, stats, blob, mountState,
                   reqState, guess, run, issued, written, reloadM, generated, unanswered>>

Next ==
    \/ Reload
    \/ MountEffects
    \/ Rerender
    \/ StartGame
    \/ HandleNextRound
    \/ TextCallThrows
    \/ \E r \in TextReplies : TextReply(r)
    \/ ImageCallThrows
    \/ \E r \in PhotoReplies : PhotoReply(r)
    \/ \E r \in ImageReplies : ImageReply(r)
    \/ ClickOption
    \/ HandleReturnToMenu
    \/ OpenMap
    \/ \E b \in BOOLEAN : SetUseRealImage(b)
    \/ ImageLoadError

Spec == Init /\ [][Next]_vars

---------------------------------------------------------------------------
(* Properties *)

\* a step of handleGuess: the only step from PLAYING to RESULT
GuessStep == gameState = "PLAYING" /\ gameState' = "RESULT"

\* C1: a correct guess adds exactly 100 + 10*s to the score, s being the
\* streak before the guess, and adds exactly 1 to the streak.
C1_CorrectGuessScore ==
    [][(GuessStep /\ isCorrect')
          => (score' = score + 100 + 10 * streak /\ streak' = streak + 1)]_vars

\* a second correct guess in a row has been scored: 100, then 110
C1_Witness ==
    gameState = "RESULT" /\ isCorrect /\ streak = 2 /\ score = 210

\* The part of s between its first and its last character that is not
\* whitespace.
C2_Core(s) ==
    LET idx == {i \in 1..Len(s) : s[i] # " "}
    IN  IF idx = {} THEN <<>>
        ELSE SubSeq(s, CHOOSE i \in idx : \A k \in idx : i <= k,
                       CHOOSE i \in idx : \A k \in idx : i >= k)

C2_CasePairs ==
    {<<"A", "a">>, <<"B", "b">>, <<"I", "i">>, <<"M", "m">>, <<"P", "p">>,
     <<"R", "r">>, <<"S", "s">>}

C2_SameLetter(a, b) == a = b \/ <<a, b>> \in C2_CasePairs \/ <<b, a>> \in C2_CasePairs

\* g and c differ at most by letter case and by surrounding whitespace
C2_Matches(g, c) ==
    /\ Len(C2_Core(g)) = Len(C2_Core(c))
    /\ \A i \in 1..Len(C2_Core(g)) : C2_SameLetter(C2_Core(g)[i], C2_Core(c)[i])

\* C2: handleGuess judges a guess correct if and only if it equals the city
\* name after trim and lowercase, that is, iff the two differ at most by
\* letter case and surrounding whitespace.
C2_JudgedByNormalizedEquality ==
    [][GuessStep
          => (isCorrect' = C2_Matches(guess'[1], currentQuestion[1].cityName))]_vars

\* a guess that differs from the city name by case and padding was judged
\* correct
C2_Witness ==
    /\ gameState = "RESULT"
    /\ guess = Some(ParisPadded)
    /\ currentQuestion[1].cityName = Paris
    /\ isCorrect

\* C3: streak is the number of correct guesses in a row since the last
\* incorrect guess or game start; an incorrect guess makes it 0.
C3_StreakCountsRun == streak = run

\* back on the menu after a miss and then a hit in the same game
C3_Witness ==
    gameState = "MENU" /\ streak = 1 /\ Len(history) = 2 /\ isCorrect

Count(x, o) == Cardinality({i \in 1..Len(o) : o[i] = x})

\* C4: every generated question has exactly 4 options, the correct city
\* name exactly once among them.
C4_FourOptionsOneCorrect ==
    currentQuestion # None
        => /\ Len(currentQuestion[1].options) = 4
           /\ Count(currentQuestion[1].cityName, currentQuestion[1].options) = 1

\* C5: the options of a generated question are a permutation of the
\* distractors followed by the city name.
C5_OptionsArePermutation ==
    currentQuestion # None
        => LET q == currentQuestion[1]
               src == Append(q.distractors, q.cityName)
           IN  /\ Len(q.options) = Len(src)
               /\ \A i \in 1..Len(src) : Count(src[i], q.options) = Count(src[i], src)
               /\ \A i \in 1..Len(q.options) :
                      Count(q.options[i], q.options) = Count(q.options[i], src)

\* four options in another order than they were built in, the city first
C5_Witness ==
    /\ currentQuestion # None
    /\ Len(currentQuestion[1].options) = 4
    /\ currentQuestion[1].options[1] = currentQuestion[1].cityName
    /\ currentQuestion[1].options[4] = currentQuestion[1].distractors[2]

\* C6: while the stored item is valid JSON, a city in it is never removed
\* from it and its stored counts never decrease.
C6_StoredEntriesKept ==
    [][(blob.kind = "json" /\ blob'.kind = "json")
          => \A i \in 1..Len(blob.text) :
                \E j \in 1..Len(blob'.text) :
                    /\ blob'.text[j][1] = blob.text[i][1]
                    /\ blob'.text[j][2][5] >= blob.text[i][2][5]
                    /\ blob'.text[j][2][6] >= blob.text[i][2][6]]_vars

\* C7: when the mapping the save effect wrote is what a reload starts from,
\* the in-memory mapping is that mapping once startup is complete.
C7_RoundTrip ==
    (phase = "ready" /\ reloadM # None) => stats = reloadM[1]

\* startup is complete after a reload from a stored mapping of two cities
C7_Witness ==
    /\ phase = "ready"
    /\ reloadM # None
    /\ Len(reloadM[1]) = 2
    /\ reloadM[1][1].value.wrong + reloadM[1][2].value.wrong >= 1
    /\ stats = reloadM[1]

\* the entry handleGuess starts from: the one of the city, or a new one
C8_Before(q) ==
    IF HasKey(stats, q.cityName)
    THEN Lookup(stats, q.cityName)
    ELSE [city |-> q.cityName, country |-> q.country, lat |-> q.lat,
          lng |-> q.lng, correct |-> 0, wrong |-> 0]

\* the counters of the city's entry after a guess, the other cities' entries
C8_Counted(q) ==
    /\ Keys(stats') = Keys(stats) \cup {q.cityName}
    /\ Len(stats') = Cardinality(Keys(stats'))
    /\ \A k \in Keys(stats) \ {q.cityName} : Lookup(stats', k) = Lookup(stats, k)
    /\ Lookup(stats', q.cityName).correct
          = C8_Before(q).correct + (IF isCorrect' THEN 1 ELSE 0)
    /\ Lookup(stats', q.cityName).wrong
          = C8_Before(q).wrong + (IF isCorrect' THEN 0 ELSE 1)
    /\ Lookup(stats', q.cityName).city = C8_Before(q).city
    /\ Lookup(stats', q.cityName).country = C8_Before(q).country

\* C8 as claimed: a guess creates the city's entry with counts 0/0 if
\* absent, adds 1 to exactly one of its counters, and changes nothing else
\* in the mapping.
C8_OnlyACounterChanges ==
    [][GuessStep
          => LET q == currentQuestion[1]
             IN  /\ C8_Counted(q)
                 /\ Lookup(stats', q.cityName).lat = C8_Before(q).lat
                 /\ Lookup(stats', q.cityName).lng = C8_Before(q).lng]_vars

\* C8 as amended: a guess creates the city's entry with counts 0/0 if
\* absent, adds 1 to exactly one of its counters and sets the entry's lat
\* and lng to those of the current question; the entry's city and country
\* and the entries of all other cities are unchanged.
C8_CounterAndCoordinates ==
    [][GuessStep
          => LET q == currentQuestion[1]
             IN  /\ C8_Counted(q)
                 /\ Lookup(stats', q.cityName).lat = q.lat
                 /\ Lookup(stats', q.cityName).lng = q.lng]_vars

\* a guess was counted for one city beside the entry of another city
C8_Witness ==
    /\ gameState = "RESULT"
    /\ guess # None
    /\ Len(stats) = 2
    /\ Visits(stats) = 2

\* C9: a generation that fails moves the screen from LOADING to ERROR with
\* an error message, leaves score, streak, history, stats and the current
\* question as they were when the request was issued, and no request is
\* outstanding on the error screen.
C9_FailureKeepsState ==
    /\ [](gameState = "ERROR" => (reqPhase = "idle" /\ errorMsg # None))
    /\ [][(reqPhase # "idle" /\ reqPhase' = "idle" /\ phase' = "ready")
             => \/ gameState' = "PLAYING"
                \/ /\ gameState = "LOADING"
                   /\ gameState' = "ERROR"
                   /\ errorMsg' # None
                   /\ issued = Some([score |-> score', streak |-> streak',
                                     history |-> history', stats |-> stats',
                                     currentQuestion |-> currentQuestion'])]_vars

\* the request of a later round failed: the score and the question of the
\* round before are still there
C9_Witness ==
    /\ gameState = "ERROR"
    /\ score > 0
    /\ currentQuestion # None
    /\ Len(history) = 1

\* C10: the retry on the error screen issues a new request and moves to
\* LOADING, leaving score, streak and the list of seen cities as they were.
C10_RetryKeepsGame ==
    [][(gameState = "ERROR" /\ gameState' = "LOADING")
          => (reqPhase' = "text" /\ UNCHANGED <<score, streak, history>>)]_vars

\* a step that ends a request with a reply or an error (not a page reload)
SettleStep == reqPhase # "idle" /\ reqPhase' = "idle" /\ phase' = "ready"

\* C11: an image-load failure sets imageError and nothing else, on the
\* PLAYING screen; with imageError set a guess is still accepted and scored
\* as usual; imageError is false whenever a question is loading.
C11_ImageErrorOnly ==
    /\ [](gameState = "LOADING" => ~imageError)
    /\ []((gameState = "PLAYING" /\ imageError /\ phase = "ready"
              /\ Visits(stats) < MaxVisits) => ENABLED ClickOption)
    /\ [][(~imageError /\ imageError')
             => /\ gameState = "PLAYING"
                /\ UNCHANGED <<gameState, currentQuestion, score, streak, history,
                               isCorrect, errorMsg, stats, blob, useRealImage,
                               reqState>>]_vars
    /\ [][(GuessStep /\ imageError)
             => /\ isCorrect' = C2_Matches(guess'[1], currentQuestion[1].cityName)
                /\ score' = (IF isCorrect' THEN score + 100 + 10 * streak ELSE score)
                /\ streak' = (IF isCorrect' THEN streak + 1 ELSE 0)
                /\ Visits(stats') = Visits(stats) + 1]_vars

\* a correct guess was scored after the image had failed to load
C11_Witness ==
    gameState = "RESULT" /\ imageError /\ isCorrect /\ score = 100

\* C12: in one invocation the text call comes first and once; an image
\* call is made only after the text reply parsed, once, to the source
\* useRealImage selects; no image call is made when the text step fails.
C12_CallsInOrder ==
    /\ calls \in {<<>>, <<"text">>, <<"text", "photo">>, <<"text", "image">>}
    /\ reqPhase = "text" => (calls = <<"text">> /\ reqData = None)
    /\ reqPhase = "image" => Len(calls) = 2
    /\ Len(calls) = 2
          => (reqData # None /\ calls[2] = (IF reqReal THEN "photo" ELSE "image"))
    /\ gameState = "PLAYING" => Len(calls) = 2

\* a question was generated with the photo search as its one image call
C12_Witness ==
    gameState = "PLAYING" /\ reqReal /\ calls = <<"text", "photo">>

\* C13: a request is outstanding exactly while the screen is LOADING; one
\* is issued only when none is outstanding; its reply or error is applied
\* on the LOADING screen and leads to PLAYING with the new question or to
\* ERROR.
C13_RequestOnlyWhileLoading ==
    /\ []((reqPhase # "idle") <=> (gameState = "LOADING"))
    /\ [][(gameState # "LOADING" /\ gameState' = "LOADING")
             => (reqPhase = "idle" /\ reqPhase' = "text")]_vars
    /\ [][SettleStep
             => /\ gameState = "LOADING"
                /\ \/ gameState' = "ERROR"
                   \/ /\ gameState' = "PLAYING"
                      /\ currentQuestion' # None
                      /\ currentQuestion'[1].cityName = reqData[1].cityName]_vars

\* the image step of a later round is outstanding on the loading screen
C13_Witness ==
    gameState = "LOADING" /\ reqPhase = "image" /\ currentQuestion # None

\* C14: the exclusion list of a request is the sequence of the cities
\* generated since the last startGame; history is that sequence, a success
\* adds its city to it and a failure adds nothing.
C14_ExclusionIsGenerated ==
    /\ [](history = generated)
    /\ [](reqPhase # "idle" => reqExclude = generated)
    /\ [][SettleStep
             => history' = (IF gameState' = "PLAYING"
                            THEN Append(history, currentQuestion'[1].cityName)
                            ELSE history)]_vars

\* the third round of a game is requested with the two cities seen
C14_Witness ==
    reqPhase = "text" /\ Len(reqExclude) = 2 /\ reqExclude = generated

\* C15: a guess is handled only on the PLAYING screen, for a question no
\* guess was handled for, and moves to RESULT; only a successful
\* generation makes a question open to a guess.  So the guesses handled,
\* each one update of score/streak and one counter increment, are never
\* more than the questions generated.
C15_OneEvaluationPerQuestion ==
    /\ [](gameState = "PLAYING" => unanswered)
    /\ [][(~unanswered /\ unanswered')
             => (gameState = "LOADING" /\ gameState' = "PLAYING")]_vars
    /\ [][((stats' # stats /\ phase = "ready" /\ phase' = "ready")
              \/ score' > score \/ streak' > streak)
             => /\ GuessStep
                /\ unanswered /\ ~unanswered'
                /\ Visits(stats') = Visits(stats) + 1]_vars

\* the second question of a game has been evaluated
C15_Witness ==
    /\ gameState = "RESULT"
    /\ ~unanswered
    /\ Len(generated) = 2
    /\ Visits(stats) = 2

=============================================================================
